---- MODULE Spec2Model ----
(***************************************************************************)
(* ImCrawler (download_images.py): the concurrent crawl-and-download       *)
(* engine.  One crawl task per seed runs parse_and_download on a thread of *)
(* the pool, recursing synchronously; the tasks share downloaded_urls,     *)
(* hash_set, index_counter (under `lock`) and visited, shutdown_flag (not  *)
(* under any lock).  The main thread appends each completed task's rows to *)
(* metadata.csv.  A process run ends when main has printed the summary and *)
(* the pool's threads have returned; the next run starts from the files    *)
(* the previous one left (metadata.csv and the image files).               *)
(***************************************************************************)
EXTENDS Integers, Sequences, FiniteSets, TLC

(***************************************************************************)
(* Bounds of the model.                                                    *)
(***************************************************************************)
MaxRuns == 2

\* the number of runs of one behaviour that receive a SIGINT
MaxInterrupts == 1

(***************************************************************************)
(* URLs.  A URL is <<netloc, stem, extension>>; a reference found in a     *)
(* page (img src, a href) is a URL, or <<"", stem, extension>> when it is  *)
(* relative to the page it stands in.                                      *)
(***************************************************************************)
None == "None"

urljoin(base, ref) == IF ref[1] = "" THEN <<base[1], ref[2], ref[3]>> ELSE ref

netloc(u) == u[1]

AllowedExts == {".jpg", ".jpeg", ".png", ".gif"}

\* line 96-99: the src values that end with an allowed extension
RECURSIVE FilterExt(_)
FilterExt(srcs) ==
    IF srcs = << >> THEN << >>
    ELSE IF srcs[1][3] \in AllowedExts
         THEN <<srcs[1]>> \o FilterExt(Tail(srcs))
         ELSE FilterExt(Tail(srcs))

\* line 113-114: the output file's name, its index and its extension
FileName(index, img_url) ==
    [index |-> index, ext |-> IF img_url[3] = "" THEN ".jpg" ELSE img_url[3]]

(***************************************************************************)
(* The web the crawler runs against: what each page and each image URL     *)
(* answers.  It is the same in every run of one behaviour.                 *)
(***************************************************************************)
Pg(ok, imgs, links) == [ok |-> ok, imgs |-> imgs, links |-> links]

Im(ok, hash, writable) == [ok |-> ok, hash |-> hash, writable |-> writable]

\* two seed pages, three images each, one image shared, all distinct
WorldScenario ==
    [seeds  |-> << <<"a", "p1", "">>, <<"a", "p2", "">> >>,
     depths |-> {0},
     pools  |-> {2},
     pages  |-> ( <<"a", "p1", "">> :> Pg(TRUE, << <<"", "x1", ".jpg">>, <<"", "x2", ".jpg">>,
                                             <<"a", "c", ".jpg">> >>, << >>)
               @@ <<"a", "p2", "">> :> Pg(TRUE, << <<"", "c", ".jpg">>, <<"", "y1", ".png">>,
                                             <<"", "y2", ".jpg">> >>, << >>) ),
     images |-> ( <<"a", "x1", ".jpg">> :> Im(TRUE, "h1", TRUE)
               @@ <<"a", "x2", ".jpg">> :> Im(TRUE, "h2", TRUE)
               @@ <<"a", "c", ".jpg">>  :> Im(TRUE, "h3", TRUE)
               @@ <<"a", "y1", ".png">> :> Im(TRUE, "h4", TRUE)
               @@ <<"a", "y2", ".jpg">> :> Im(TRUE, "h5", TRUE) )]

\* two URLs with the same content, an image that is not served, an image
\* that does not decode, a src with an extension that is filtered out
WorldDup ==
    [seeds  |-> << <<"a", "p1", "">>, <<"a", "p2", "">> >>,
     depths |-> {0},
     pools  |-> {1, 2},
     pages  |-> ( <<"a", "p1", "">> :> Pg(TRUE, << <<"", "u1", ".jpg">>, <<"", "v", ".svg">>,
                                             <<"", "gone", ".gif">> >>, << >>)
               @@ <<"a", "p2", "">> :> Pg(TRUE, << <<"", "u2", ".jpg">>, <<"", "raw", ".png">> >>,
                                          << >>) ),
     images |-> ( <<"a", "u1", ".jpg">>   :> Im(TRUE, "h1", TRUE)
               @@ <<"a", "u2", ".jpg">>   :> Im(TRUE, "h1", TRUE)
               @@ <<"a", "v", ".svg">>    :> Im(TRUE, "h2", TRUE)
               @@ <<"a", "gone", ".gif">> :> Im(FALSE, None, TRUE)
               @@ <<"a", "raw", ".png">>  :> Im(TRUE, None, TRUE) )]

\* two URLs with the same content, one of which cannot be written to disk
WorldWrite ==
    [seeds  |-> << <<"a", "p1", "">>, <<"a", "p2", "">> >>,
     depths |-> {0},
     pools  |-> {2},
     pages  |-> ( <<"a", "p1", "">> :> Pg(TRUE, << <<"", "w1", ".jpg">> >>, << >>)
               @@ <<"a", "p2", "">> :> Pg(TRUE, << <<"", "w2", ".jpg">> >>, << >>) ),
     images |-> ( <<"a", "w1", ".jpg">> :> Im(TRUE, "h1", FALSE)
               @@ <<"a", "w2", ".jpg">> :> Im(TRUE, "h1", TRUE) )]

\* a site with a diamond (s -> r, t -> r), a cycle (r -> s), a page reached
\* first along the longer path (s -> m -> r, then s -> r), a link to another
\* host and a page that is not served
WorldGraph ==
    [seeds  |-> << <<"a", "s", "">>, <<"a", "t", "">> >>,
     depths |-> {-1, 0, 1, 2},
     pools  |-> {2},
     pages  |-> ( <<"a", "s", "">> :> Pg(TRUE, << <<"", "i1", ".jpg">> >>,
                                         << <<"", "m", "">>, <<"", "r", "">>, <<"b", "x", "">> >>)
               @@ <<"a", "t", "">> :> Pg(TRUE, << >>, << <<"", "f", "">>, <<"", "r", "">> >>)
               @@ <<"a", "m", "">> :> Pg(TRUE, << >>, << <<"", "r", "">> >>)
               @@ <<"a", "r", "">> :> Pg(TRUE, << <<"a", "i1", ".jpg">> >>,
                                         << <<"a", "s", "">>, <<"", "q", "">> >>)
               @@ <<"a", "q", "">> :> Pg(TRUE, << >>, << >>)
               @@ <<"a", "f", "">> :> Pg(FALSE, << >>, << >>)
               @@ <<"b", "x", "">> :> Pg(TRUE, << <<"", "i3", ".jpg">> >>, << >>) ),
     images |-> ( <<"a", "i1", ".jpg">> :> Im(TRUE, "h1", TRUE)
               @@ <<"b", "i3", ".jpg">> :> Im(TRUE, "h3", TRUE) )]

\* a site without failures on which the page r is linked from the seed
\* directly, after a link to m, which links back to the seed and to r
WorldChain ==
    [seeds  |-> << <<"a", "s", "">> >>,
     depths |-> {2},
     pools  |-> {1},
     pages  |-> ( <<"a", "s", "">> :> Pg(TRUE, << >>, << <<"", "m", "">>, <<"", "r", "">> >>)
               @@ <<"a", "m", "">> :> Pg(TRUE, << >>, << <<"", "s", "">>, <<"", "r", "">> >>)
               @@ <<"a", "r", "">> :> Pg(TRUE, << >>, << <<"", "q", "">> >>)
               @@ <<"a", "q", "">> :> Pg(TRUE, << >>, << >>) ),
     images |-> << >>]

WorldNames == {"scenario", "dup", "write", "graph", "chain"}

World(w) ==
    CASE w = "scenario" -> WorldScenario
      [] w = "dup"      -> WorldDup
      [] w = "write"    -> WorldWrite
      [] w = "graph"    -> WorldGraph
      [] w = "chain"    -> WorldChain

(***************************************************************************)
(* State.                                                                  *)
(***************************************************************************)
VARIABLES
    world,            \* the web this behaviour runs against
    depth,            \* args.depth
    threads,          \* args.threads
    run,              \* number of the current process run
    metaFile,         \* metadata.csv: the rows after the header
    disk,             \* the image files of the output directory
    downloaded_urls,  \* main: downloaded_urls
    hash_set,         \* main: hash_set
    index_counter,    \* main: index_counter, the value next() returns next
    visited,          \* main: visited
    shutdown_flag,    \* the module's shutdown_flag
    lock,             \* main: lock, the thread that holds it
    fut,              \* state of each future: pending, running, done, cancelled
    stack,            \* call stack of each task's parse_and_download
    result,           \* what each finished future returns
    main_pc,          \* where the main thread is
    future,           \* the future as_completed yielded last
    early,            \* futures already finished when as_completed began
    finished,         \* futures finished since, in the order they finished
    handled,          \* futures as_completed has already yielded
    sites_visited, total_found, total_downloaded, total_failed,
    summary,          \* the summaries print_summary printed in this run
    fetches,          \* history: page requests issued in this run
    allocs,           \* history: indices handed out in this run
    gots,             \* history: image requests answered with bytes in this run
    writes,           \* history: image files written in this run
    late,             \* history: requests issued in this run after the SIGINT
    ended             \* history: how each earlier run ended

config == <<world, depth, threads>>
files  == <<metaFile, disk>>
shared == <<downloaded_urls, hash_set, index_counter, visited>>
pool   == <<fut, stack, result>>
mainv  == <<main_pc, future, early, finished, handled, sites_visited, total_found,
            total_downloaded, total_failed, summary>>
hist   == <<fetches, allocs, gots, writes, late, ended>>
vars   == <<config, run, files, shared, shutdown_flag, lock, pool, mainv, hist>>

Tasks == 1 .. Len(World(world).seeds)

\* line 239: threading.Lock(), held by no thread, by the thread of a crawl
\* task, or by the main thread
Free == 0

MainThread == Len(World(world).seeds) + 1

Running == {t \in Tasks : fut[t] = "running"}

\* what a page request answers: an unknown URL is a failed request
PageAt(u) ==
    IF u \in DOMAIN World(world).pages THEN World(world).pages[u]
    ELSE Pg(FALSE, << >>, << >>)

ImageAt(u) ==
    IF u \in DOMAIN World(world).images THEN World(world).images[u]
    ELSE Im(FALSE, None, TRUE)

\* hash_image_bytes of the bytes an image URL serves
hash_image_bytes(u) == ImageAt(u).hash

\* csv.writer writes None as the empty cell, and DictReader reads it as ""
CsvCell(h) == IF h = None THEN "" ELSE h

\* a resume that forgets what the metadata file records
load_nothing(rows) == {}

\* line 143-150
load_existing_metadata(rows) == {rows[k].image_url : k \in DOMAIN rows}

\* line 245-250
LoadHashes(rows) == {rows[k].img_hash : k \in DOMAIN rows}

\* a fresh activation of parse_and_download (line 84-85)
Frame(u, d) ==
    [url |-> u, depth |-> d, pc |-> "entry", i |-> 1, j |-> 1,
     metadata |-> << >>, found |-> 0, downloaded |-> 0, failed |-> 0,
     local_index |-> 0]

Top(t) == stack[t][Len(stack[t])]

SetTop(t, f) == [stack EXCEPT ![t] = [@ EXCEPT ![Len(@)] = f]]

At(t, pc) == fut[t] = "running" /\ stack[t] # << >> /\ Top(t).pc = pc

img_srcs(f) == FilterExt(PageAt(f.url).imgs)

\* line 220-257: the state main builds before it submits the tasks
StartOfRun(rows) ==
    /\ downloaded_urls = load_existing_metadata(rows)
    /\ hash_set = LoadHashes(rows)
    /\ index_counter = 0
    /\ visited = {}
    /\ shutdown_flag = FALSE
    /\ lock = Free
    /\ fut = [t \in Tasks |-> "pending"]
    /\ stack = [t \in Tasks |-> << >>]
    /\ result = [t \in Tasks |-> << >>]
    /\ main_pc = "start"
    /\ future = 0
    /\ early = {}
    /\ finished = << >>
    /\ handled = {}
    /\ sites_visited = 0
    /\ total_found = 0
    /\ total_downloaded = 0
    /\ total_failed = 0
    /\ summary = << >>
    /\ fetches = {}
    /\ allocs = {}
    /\ gots = {}
    /\ writes = {}
    /\ late = {}

Init ==
    /\ world \in WorldNames
    /\ depth \in World(world).depths
    /\ threads \in World(world).pools
    /\ run = 1
    /\ metaFile = << >>
    /\ disk = {}
    /\ ended = << >>
    /\ StartOfRun(<< >>)

(***************************************************************************)
(* The executor: a pool thread takes the oldest pending work item.         *)
(***************************************************************************)
Submit(t) ==
    /\ fut[t] = "pending"
    /\ Cardinality(Running) < threads
    /\ \A s \in Tasks : s < t => fut[s] # "pending"
    /\ fut' = [fut EXCEPT ![t] = "running"]
    /\ stack' = [stack EXCEPT ![t] = <<Frame(World(world).seeds[t], depth)>>]
    /\ UNCHANGED <<config, run, files, shared, shutdown_flag, lock, result, mainv, hist>>

(***************************************************************************)
(* parse_and_download, one action per step that another thread can         *)
(* interleave with.  `visited` and shutdown_flag are read and written      *)
(* outside the lock.  A task whose pc is in the domain of WithLock stands   *)
(* at a `with lock:` and waits there until Acquire gives it the lock; the  *)
(* step that follows is the body of the block, which ends by releasing the *)
(* lock.                                                                   *)
(***************************************************************************)
\* line 124-132 with the depth passed on unchanged
FollowLinkSameDepth(t) ==
    /\ At(t, "links")
    /\ LET f == Top(t)
           links == PageAt(f.url).links
       IN IF f.depth > 0 /\ f.j <= Len(links)
          THEN LET next_url == urljoin(f.url, links[f.j]) IN
               IF netloc(next_url) = netloc(f.url)
               THEN stack' = [stack EXCEPT ![t] = Append(@, Frame(next_url, f.depth))]
               ELSE stack' = SetTop(t, [f EXCEPT !.j = @ + 1])
          ELSE stack' = SetTop(t, [f EXCEPT !.pc = "ret"])
    /\ UNCHANGED <<config, run, files, shared, shutdown_flag, lock, fut, result, mainv,
                   hist>>

\* line 107-112 without the membership test
AdmitUnchecked(t) ==
    /\ At(t, "admit")
    /\ lock = t
    /\ LET f == Top(t)
           img_url == urljoin(f.url, img_srcs(f)[f.i])
       IN /\ downloaded_urls' = downloaded_urls \cup {img_url}
          /\ index_counter' = index_counter + 1
          /\ allocs' = allocs \cup {[index |-> index_counter, url |-> img_url,
                                     task |-> t]}
          /\ stack' = SetTop(t, [f EXCEPT !.local_index = index_counter,
                                          !.pc = "get"])
    /\ lock' = Free
    /\ UNCHANGED <<config, run, files, hash_set, visited, shutdown_flag, fut, result,
                   mainv, fetches, gots, writes, late, ended>>

\* line 86-87: the guard of the activation
Enter(t) ==
    /\ At(t, "entry")
    /\ LET f == Top(t) IN
       stack' = SetTop(t, [f EXCEPT !.pc =
                    IF f.url \in visited \/ shutdown_flag \/ f.depth < 0
                    THEN "ret" ELSE "add"])
    /\ UNCHANGED <<config, run, files, shared, shutdown_flag, lock, fut, result, mainv,
                   hist>>

\* line 88
AddVisited(t) ==
    /\ At(t, "add")
    /\ visited' = visited \cup {Top(t).url}
    /\ stack' = SetTop(t, [Top(t) EXCEPT !.pc = "fetch"])
    /\ UNCHANGED <<config, run, files, downloaded_urls, hash_set, index_counter,
                   shutdown_flag, lock, fut, result, mainv, hist>>

\* line 90-100, and 137-139 without the count of the failure
FetchPageUncounted(t) ==
    /\ At(t, "fetch")
    /\ LET f == Top(t) IN
       /\ fetches' = fetches \cup {[url |-> f.url, task |-> t, depth |-> f.depth]}
       /\ late' = IF shutdown_flag THEN late \cup {[task |-> t, url |-> f.url]}
                  ELSE late
       /\ stack' = SetTop(t,
             IF PageAt(f.url).ok
             THEN [f EXCEPT !.found = Len(img_srcs(f)), !.pc = "with_bar"]
             ELSE [f EXCEPT !.pc = "ret"])
    /\ UNCHANGED <<config, run, files, shared, shutdown_flag, lock, fut, result, mainv,
                   allocs, gots, writes, ended>>

\* line 90-100, and 137-139 when the request fails
FetchPage(t) ==
    /\ At(t, "fetch")
    /\ LET f == Top(t) IN
       /\ fetches' = fetches \cup {[url |-> f.url, task |-> t, depth |-> f.depth]}
       /\ late' = IF shutdown_flag THEN late \cup {[task |-> t, url |-> f.url]}
                  ELSE late
       /\ stack' = SetTop(t,
             IF PageAt(f.url).ok
             THEN [f EXCEPT !.found = Len(img_srcs(f)), !.pc = "with_bar"]
             ELSE [f EXCEPT !.failed = @ + 1, !.pc = "ret"])
    /\ UNCHANGED <<config, run, files, shared, shutdown_flag, lock, fut, result, mainv,
                   allocs, gots, writes, ended>>

\* the `with lock:` statements of a task (line 101, 107, 65 and 121), and
\* the body each one leads into
WithLock ==
    [with_bar |-> "bar", with_admit |-> "admit", with_hash |-> "hash", with_tick |-> "tick"]

\* lock.__enter__: the task blocks until the lock is free, and takes it
Acquire(t) ==
    /\ fut[t] = "running" /\ stack[t] # << >> /\ Top(t).pc \in DOMAIN WithLock
    /\ lock = Free
    /\ lock' = t
    /\ stack' = SetTop(t, [Top(t) EXCEPT !.pc = WithLock[@]])
    /\ UNCHANGED <<config, run, files, shared, shutdown_flag, fut, result, mainv, hist>>

\* line 101-103: the total of the progress bar, under the lock
BarTotal(t) ==
    /\ At(t, "bar")
    /\ lock = t
    /\ stack' = SetTop(t, [Top(t) EXCEPT !.pc = "imgs"])
    /\ lock' = Free
    /\ UNCHANGED <<config, run, files, shared, shutdown_flag, fut, result, mainv, hist>>

\* line 104-107 without the test of shutdown_flag
NextImageNoPoll(t) ==
    /\ At(t, "imgs")
    /\ LET f == Top(t) IN
       stack' = SetTop(t, [f EXCEPT !.pc =
                    IF f.i > Len(img_srcs(f)) THEN "links" ELSE "with_admit"])
    /\ UNCHANGED <<config, run, files, shared, shutdown_flag, lock, fut, result, mainv,
                   hist>>

\* line 104-106: the head of the image loop
NextImage(t) ==
    /\ At(t, "imgs")
    /\ LET f == Top(t) IN
       stack' = SetTop(t, [f EXCEPT !.pc =
                    IF f.i > Len(img_srcs(f)) \/ shutdown_flag
                    THEN "links" ELSE "with_admit"])
    /\ UNCHANGED <<config, run, files, shared, shutdown_flag, lock, fut, result, mainv,
                   hist>>

\* line 107-112 with the lock still held after `continue`
AdmitHoldsLock(t) ==
    /\ At(t, "admit")
    /\ lock = t
    /\ LET f == Top(t)
           img_url == urljoin(f.url, img_srcs(f)[f.i])
       IN IF img_url \in downloaded_urls
          THEN /\ stack' = SetTop(t, [f EXCEPT !.i = @ + 1, !.pc = "imgs"])
               /\ UNCHANGED <<downloaded_urls, index_counter, allocs, lock>>
          ELSE /\ downloaded_urls' = downloaded_urls \cup {img_url}
               /\ index_counter' = index_counter + 1
               /\ allocs' = allocs \cup {[index |-> index_counter, url |-> img_url,
                                          task |-> t]}
               /\ stack' = SetTop(t, [f EXCEPT !.local_index = index_counter,
                                               !.pc = "get"])
               /\ lock' = Free
    /\ UNCHANGED <<config, run, files, hash_set, visited, shutdown_flag, fut, result,
                   mainv, fetches, gots, writes, late, ended>>

\* line 107-112 without line 110: the URL is not put into the set
AdmitNoInsert(t) ==
    /\ At(t, "admit")
    /\ lock = t
    /\ LET f == Top(t)
           img_url == urljoin(f.url, img_srcs(f)[f.i])
       IN IF img_url \in downloaded_urls
          THEN /\ stack' = SetTop(t, [f EXCEPT !.i = @ + 1, !.pc = "imgs"])
               /\ UNCHANGED <<index_counter, allocs>>
          ELSE /\ index_counter' = index_counter + 1
               /\ allocs' = allocs \cup {[index |-> index_counter, url |-> img_url,
                                          task |-> t]}
               /\ stack' = SetTop(t, [f EXCEPT !.local_index = index_counter,
                                               !.pc = "get"])
    /\ lock' = Free
    /\ UNCHANGED <<config, run, files, downloaded_urls, hash_set, visited, shutdown_flag,
                   fut, result, mainv, fetches, gots, writes, late, ended>>

\* line 107-112 with an index taken for a URL that is already in the set
AdmitCountsDuplicate(t) ==
    /\ At(t, "admit")
    /\ lock = t
    /\ LET f == Top(t)
           img_url == urljoin(f.url, img_srcs(f)[f.i])
       IN IF img_url \in downloaded_urls
          THEN /\ stack' = SetTop(t, [f EXCEPT !.i = @ + 1, !.pc = "imgs"])
               /\ index_counter' = index_counter + 1
               /\ UNCHANGED <<downloaded_urls, allocs>>
          ELSE /\ downloaded_urls' = downloaded_urls \cup {img_url}
               /\ index_counter' = index_counter + 1
               /\ allocs' = allocs \cup {[index |-> index_counter, url |-> img_url,
                                          task |-> t]}
               /\ stack' = SetTop(t, [f EXCEPT !.local_index = index_counter,
                                               !.pc = "get"])
    /\ lock' = Free
    /\ UNCHANGED <<config, run, files, hash_set, visited, shutdown_flag, fut, result,
                   mainv, fetches, gots, writes, late, ended>>

\* a counter that hands out the same value again
SameIndex(c) == c

\* line 112: next(index_counter)
NextIndex(c) == c + 1

\* line 107-112: the gate, one critical section; `continue` leaves it
Admit(t) ==
    /\ At(t, "admit")
    /\ lock = t
    /\ LET f == Top(t)
           img_url == urljoin(f.url, img_srcs(f)[f.i])
       IN IF img_url \in downloaded_urls
          THEN /\ stack' = SetTop(t, [f EXCEPT !.i = @ + 1, !.pc = "imgs"])
               /\ UNCHANGED <<downloaded_urls, index_counter, allocs>>
          ELSE /\ downloaded_urls' = downloaded_urls \cup {img_url}
               /\ index_counter' = NextIndex(index_counter)
               /\ allocs' = allocs \cup {[index |-> index_counter, url |-> img_url,
                                          task |-> t]}
               /\ stack' = SetTop(t, [f EXCEPT !.local_index = index_counter,
                                               !.pc = "get"])
    /\ lock' = Free
    /\ UNCHANGED <<config, run, files, hash_set, visited, shutdown_flag, fut, result,
                   mainv, fetches, gots, writes, late, ended>>

\* line 58-64, and 72-74 with 119-120 when the request fails; bytes that
\* have no hash pass line 64 without the lock
GetImage(t) ==
    /\ At(t, "get")
    /\ LET f == Top(t)
           img_url == urljoin(f.url, img_srcs(f)[f.i])
       IN /\ late' = IF shutdown_flag THEN late \cup {[task |-> t, url |-> img_url]}
                     ELSE late
          /\ IF ImageAt(img_url).ok
             THEN /\ gots' = gots \cup {img_url}
                  /\ stack' = SetTop(t, [f EXCEPT !.pc =
                         IF hash_image_bytes(img_url) # None THEN "with_hash" ELSE "write"])
             ELSE /\ stack' = SetTop(t, [f EXCEPT !.failed = @ + 1, !.pc = "with_tick"])
                  /\ UNCHANGED gots
    /\ UNCHANGED <<config, run, files, shared, shutdown_flag, lock, fut, result, mainv,
                   fetches, allocs, writes, ended>>

\* line 65-68: the content gate, one critical section; on a duplicate
\* download_image returns False out of it and the caller (line 119-120)
\* counts a failure
CheckHash(t) ==
    /\ At(t, "hash")
    /\ lock = t
    /\ LET f == Top(t)
           img_url == urljoin(f.url, img_srcs(f)[f.i])
           img_hash == hash_image_bytes(img_url)
       IN IF img_hash \in hash_set
          THEN /\ stack' = SetTop(t, [f EXCEPT !.failed = @ + 1, !.pc = "with_tick"])
               /\ UNCHANGED hash_set
          ELSE /\ hash_set' = hash_set \cup {img_hash}
               /\ stack' = SetTop(t, [f EXCEPT !.pc = "write"])
    /\ lock' = Free
    /\ UNCHANGED <<config, run, files, downloaded_urls, index_counter, visited,
                   shutdown_flag, fut, result, mainv, hist>>

\* line 69-71 and 116-118; 72-74 and 119-120 when the file cannot be written
WriteFile(t) ==
    /\ At(t, "write")
    /\ LET f == Top(t)
           img_url == urljoin(f.url, img_srcs(f)[f.i])
           fname == FileName(f.local_index, img_url)
       IN IF ImageAt(img_url).writable
          THEN /\ disk' = {d \in disk : d.filename # fname}
                            \cup {[filename |-> fname, url |-> img_url]}
               /\ writes' = writes \cup {[filename |-> fname, url |-> img_url]}
               /\ stack' = SetTop(t, [f EXCEPT
                      !.metadata = Append(@, [filename |-> fname, image_url |-> img_url,
                                              page_url |-> f.url]),
                      !.downloaded = @ + 1, !.pc = "with_tick"])
          ELSE /\ stack' = SetTop(t, [f EXCEPT !.failed = @ + 1, !.pc = "with_tick"])
               /\ UNCHANGED <<disk, writes>>
    /\ UNCHANGED <<config, run, metaFile, shared, shutdown_flag, lock, fut, result, mainv,
                   fetches, allocs, gots, late, ended>>

\* line 121-122: the progress bar advances, under the lock, and the loop
\* goes on to the next src
BarUpdate(t) ==
    /\ At(t, "tick")
    /\ lock = t
    /\ stack' = SetTop(t, [Top(t) EXCEPT !.i = @ + 1, !.pc = "imgs"])
    /\ lock' = Free
    /\ UNCHANGED <<config, run, files, shared, shutdown_flag, fut, result, mainv, hist>>

\* line 124-132 entered from the head of the image loop
FollowLinkEarly(t) ==
    /\ At(t, "imgs")
    /\ LET f == Top(t)
           links == PageAt(f.url).links
       IN IF f.depth > 0 /\ f.j <= Len(links)
          THEN LET next_url == urljoin(f.url, links[f.j]) IN
               IF netloc(next_url) = netloc(f.url)
               THEN stack' = [stack EXCEPT ![t] = Append(@, Frame(next_url, f.depth - 1))]
               ELSE stack' = SetTop(t, [f EXCEPT !.j = @ + 1])
          ELSE stack' = SetTop(t, [f EXCEPT !.pc = "ret"])
    /\ UNCHANGED <<config, run, files, shared, shutdown_flag, lock, fut, result, mainv,
                   hist>>

\* line 124-132: the link loop; a same-origin link is a recursive call
FollowLink(t) ==
    /\ At(t, "links")
    /\ LET f == Top(t)
           links == PageAt(f.url).links
       IN IF f.depth > 0 /\ f.j <= Len(links)
          THEN LET next_url == urljoin(f.url, links[f.j]) IN
               IF netloc(next_url) = netloc(f.url)
               THEN stack' = [stack EXCEPT ![t] = Append(@, Frame(next_url, f.depth - 1))]
               ELSE stack' = SetTop(t, [f EXCEPT !.j = @ + 1])
          ELSE stack' = SetTop(t, [f EXCEPT !.pc = "ret"])
    /\ UNCHANGED <<config, run, files, shared, shutdown_flag, lock, fut, result, mainv,
                   hist>>

\* line 140: return to the caller (line 133-136), or complete the future
Return(t) ==
    /\ At(t, "ret")
    /\ LET f == Top(t)
           n == Len(stack[t])
       IN IF n > 1
          THEN /\ stack' = [stack EXCEPT ![t] =
                     Append(SubSeq(@, 1, n - 2),
                            [@[n - 1] EXCEPT !.metadata = @ \o f.metadata,
                                             !.found = @ + f.found,
                                             !.downloaded = @ + f.downloaded,
                                             !.failed = @ + f.failed,
                                             !.j = @ + 1])]
               /\ UNCHANGED <<fut, result, finished>>
          ELSE /\ stack' = [stack EXCEPT ![t] = << >>]
               /\ fut' = [fut EXCEPT ![t] = "done"]
               /\ result' = [result EXCEPT ![t] =
                     [metadata |-> f.metadata, found |-> f.found,
                      downloaded |-> f.downloaded, failed |-> f.failed]]
               /\ finished' = IF main_pc = "start" THEN finished
                              ELSE Append(finished, t)
    /\ UNCHANGED <<config, run, files, shared, shutdown_flag, lock, main_pc, future, early,
                   handled, sites_visited, total_found, total_downloaded, total_failed,
                   summary, hist>>

(***************************************************************************)
(* The main thread: line 278-314.                                          *)
(***************************************************************************)
\* line 285-290: the hash of the file a row names, "" when it cannot be read
FileHash(fname) ==
    IF \E d \in disk : d.filename = fname
    THEN CsvCell(hash_image_bytes((CHOOSE d \in disk : d.filename = fname).url))
    ELSE ""

\* line 283-291
meta_rows(metadata) ==
    [k \in DOMAIN metadata |->
        [filename |-> metadata[k].filename, image_url |-> metadata[k].image_url,
         page_url |-> metadata[k].page_url, img_hash |-> FileHash(metadata[k].filename)]]

\* an append that loses the first row of each batch
append_metadata_short(file, rows) ==
    file \o (IF rows = << >> THEN << >> ELSE Tail(rows))

\* line 164-172: the rows are appended to what the file holds
append_metadata(file, rows) == file \o rows

\* line 279: as_completed starts with the futures that have finished by now
as_completed ==
    /\ main_pc = "start"
    /\ early' = {t \in Tasks : fut[t] = "done"}
    /\ main_pc' = "wait"
    /\ UNCHANGED <<config, run, files, shared, shutdown_flag, lock, pool, future, finished,
                   handled, sites_visited, total_found, total_downloaded, total_failed,
                   summary, hist>>

\* the future as_completed yields next: one that had finished when it
\* began, in any order, then the others in the order they finished
Yields(t) ==
    /\ t \notin handled
    /\ \/ t \in early
       \/ /\ early \subseteq handled
          /\ \E k \in DOMAIN finished :
                /\ finished[k] = t
                /\ \A m \in 1 .. k - 1 : finished[m] \in handled

\* line 279-281: as_completed yields a finished future, and main blocks
\* until the lock is free, and takes it
AcquireMain(t) ==
    /\ main_pc = "wait"
    /\ Yields(t)
    /\ lock = Free
    /\ lock' = MainThread
    /\ future' = t
    /\ main_pc' = "locked"
    /\ UNCHANGED <<config, run, files, shared, shutdown_flag, pool, early, finished,
                   handled, sites_visited, total_found, total_downloaded, total_failed,
                   summary, hist>>

\* line 280-297: the rows of the future are appended and its counters
\* added, one critical section
HandleFuture(t) ==
    /\ main_pc = "locked"
    /\ future = t
    /\ lock = MainThread
    /\ metaFile' = append_metadata(metaFile, meta_rows(result[t].metadata))
    /\ sites_visited' = sites_visited + 1
    /\ total_found' = total_found + result[t].found
    /\ total_downloaded' = total_downloaded + result[t].downloaded
    /\ total_failed' = total_failed + result[t].failed
    /\ handled' = handled \cup {t}
    /\ main_pc' = "check"
    /\ lock' = Free
    /\ UNCHANGED <<config, run, disk, shared, shutdown_flag, pool, future, early, finished,
                   summary, hist>>

\* line 298-299 in a loop that does not end when every future was yielded
CheckShutdownOnly ==
    /\ main_pc = "check"
    /\ main_pc' = IF shutdown_flag THEN "finally" ELSE "wait"
    /\ UNCHANGED <<config, run, files, shared, shutdown_flag, lock, pool, future, early,
                   finished, handled, sites_visited, total_found, total_downloaded,
                   total_failed, summary, hist>>

\* line 298-299, and the end of the loop when every future was yielded
CheckShutdown ==
    /\ main_pc = "check"
    /\ main_pc' = IF shutdown_flag \/ handled = Tasks THEN "finally" ELSE "wait"
    /\ UNCHANGED <<config, run, files, shared, shutdown_flag, lock, pool, future, early,
                   finished, handled, sites_visited, total_found, total_downloaded,
                   total_failed, summary, hist>>

\* line 300-314: pending futures are cancelled, the pool is not waited
\* for, the summary is printed
Finally ==
    /\ main_pc = "finally"
    /\ fut' = [t \in Tasks |-> IF fut[t] = "pending" THEN "cancelled" ELSE fut[t]]
    /\ summary' = Append(summary,
                         [sites_visited |-> sites_visited, found |-> total_found,
                          downloaded |-> total_downloaded, failed |-> total_failed])
    /\ main_pc' = "exit"
    /\ UNCHANGED <<config, run, files, shared, shutdown_flag, lock, stack, result, future,
                   early, finished, handled, sites_visited, total_found, total_downloaded,
                   total_failed, hist>>

\* the runs so far that were interrupted
Interrupted == {k \in DOMAIN ended : ended[k].interrupted}

\* line 320-323: SIGINT
handle_sigint ==
    /\ ~shutdown_flag
    /\ Cardinality(Interrupted) < MaxInterrupts
    /\ shutdown_flag' = TRUE
    /\ UNCHANGED <<config, run, files, shared, lock, pool, mainv, hist>>

\* the process has ended: main returned and no pool thread is in a task
ProcessOver == main_pc = "exit" /\ Running = {}

\* the tool is run again on the same seed list and output directory:
\* line 236-257 rebuild the state from metadata.csv
Rerun ==
    /\ ProcessOver
    /\ run < MaxRuns
    /\ run' = run + 1
    /\ ended' = Append(ended, [interrupted |-> shutdown_flag, rows |-> Len(metaFile)])
    /\ downloaded_urls' = load_existing_metadata(metaFile)
    /\ hash_set' = LoadHashes(metaFile)
    /\ index_counter' = 0
    /\ visited' = {}
    /\ shutdown_flag' = FALSE
    /\ lock' = Free
    /\ fut' = [t \in Tasks |-> "pending"]
    /\ stack' = [t \in Tasks |-> << >>]
    /\ result' = [t \in Tasks |-> << >>]
    /\ main_pc' = "start"
    /\ future' = 0
    /\ early' = {}
    /\ finished' = << >>
    /\ handled' = {}
    /\ sites_visited' = 0
    /\ total_found' = 0
    /\ total_downloaded' = 0
    /\ total_failed' = 0
    /\ summary' = << >>
    /\ fetches' = {}
    /\ allocs' = {}
    /\ gots' = {}
    /\ writes' = {}
    /\ late' = {}
    /\ UNCHANGED <<config, files>>

Next ==
    \/ \E t \in Tasks : Submit(t)
    \/ \E t \in Tasks : Enter(t)
    \/ \E t \in Tasks : AddVisited(t)
    \/ \E t \in Tasks : FetchPage(t)
    \/ \E t \in Tasks : Acquire(t)
    \/ \E t \in Tasks : BarTotal(t)
    \/ \E t \in Tasks : NextImage(t)
    \/ \E t \in Tasks : Admit(t)
    \/ \E t \in Tasks : GetImage(t)
    \/ \E t \in Tasks : CheckHash(t)
    \/ \E t \in Tasks : WriteFile(t)
    \/ \E t \in Tasks : BarUpdate(t)
    \/ \E t \in Tasks : FollowLink(t)
    \/ \E t \in Tasks : Return(t)
    \/ as_completed
    \/ \E t \in Tasks : AcquireMain(t)
    \/ \E t \in Tasks : HandleFuture(t)
    \/ CheckShutdown
    \/ Finally
    \/ handle_sigint
    \/ Rerun

Spec == Init /\ [][Next]_vars

(***************************************************************************)
(* Fair scheduling.  A step of the program is a step of a pool thread or   *)
(* of the main thread; SIGINT and the start of another run are up to the   *)
(* user.  The threads are scheduled by the operating system and every      *)
(* request returns or times out (timeout=10, line 60 and 90), so the       *)
(* program does not stand still while one of its threads can take a step.  *)
(***************************************************************************)
ProgramStep ==
    \/ \E t \in Tasks : Submit(t)
    \/ \E t \in Tasks :
          \/ Enter(t) \/ AddVisited(t) \/ FetchPage(t) \/ Acquire(t) \/ BarTotal(t)
          \/ NextImage(t) \/ Admit(t) \/ GetImage(t) \/ CheckHash(t) \/ WriteFile(t)
          \/ BarUpdate(t) \/ FollowLink(t) \/ Return(t)
    \/ as_completed
    \/ \E t \in Tasks : AcquireMain(t)
    \/ \E t \in Tasks : HandleFuture(t)
    \/ CheckShutdown
    \/ Finally

\* the webs the fair specification runs against: every web but the one of
\* the six-image scenario, the graph site up to depth 1
InitFair ==
    /\ Init
    /\ world # "scenario"
    /\ world = "graph" => depth < 2

SpecFair == InitFair /\ [][Next]_vars /\ WF_vars(ProgramStep)

(***************************************************************************)
(* Properties.                                                             *)
(***************************************************************************)
Rows == {metaFile[k] : k \in DOMAIN metaFile}

RowsOf(u) == {k \in DOMAIN metaFile : metaFile[k].image_url = u}

\* C1: in every run, fresh or resumed, under every interleaving of the
\* crawl tasks, no two rows of the metadata file have the same image_url.
C1_UniqueSourceURL ==
    \A k1, k2 \in DOMAIN metaFile :
        metaFile[k1].image_url = metaFile[k2].image_url => k1 = k2

\* a resumed run has appended rows after the rows it loaded, while the
\* other task has passed over a URL that was already recorded
C1_Witness ==
    /\ run = 2
    /\ Len(metaFile) > ended[1].rows
    /\ \A t \in Tasks : fut[t] = "done"
    /\ \E e \in fetches, k \in 1 .. ended[1].rows :
          \E n \in DOMAIN img_srcs(e) :
              metaFile[k].image_url = urljoin(e.url, img_srcs(e)[n])

\* C2: a page URL is requested at most once per run, whatever the
\* interleaving of the tasks that share `visited`.
C2_VisitedOnce ==
    \A e1, e2 \in fetches : e1.url = e2.url => e1 = e2

\* C3: within a run no two admissions receive the same index, so no two
\* files of the run have the same name; an index is consumed by its admission
\* whether or not the download succeeds, so the counter equals the number of
\* admissions.
C3_IndexNeverReused ==
    /\ \A a1, a2 \in allocs : a1.index = a2.index => a1 = a2
    /\ \A w1, w2 \in writes : w1.filename = w2.filename => w1 = w2
    /\ index_counter = Cardinality(allocs)
    /\ \A a \in allocs : a.index < index_counter

\* two tasks were given indices, and a download that failed left a gap
\* below an index whose file was written
C3_Witness ==
    /\ \E a1, a2 \in allocs : a1.task # a2.task
    /\ \E a \in allocs, w \in writes :
          /\ a.index < w.filename.index
          /\ ~ \E v \in writes : v.filename.index = a.index
          /\ \A t \in Tasks : fut[t] = "done"

\* C4: when the process has ended, every image file written in the run has
\* exactly one row in the metadata file, also when the run was interrupted
\* while other tasks were in flight.
C4_KeptHasRecord ==
    ProcessOver =>
        \A w \in writes : Cardinality(RowsOf(w.url)) = 1

\* the image URLs the scenario's uninterrupted run records
ScenarioKept == DOMAIN WorldScenario.images

\* C5: a run interrupted at any point followed by a complete run on the
\* same seeds and output directory ends with the rows of one uninterrupted
\* run and no file name in two rows.
C5_ResumeConverges ==
    (run = 2 /\ ProcessOver /\ ended[1].interrupted /\ ~shutdown_flag) =>
        /\ \A k1, k2 \in DOMAIN metaFile :
              metaFile[k1].filename = metaFile[k2].filename => k1 = k2
        /\ world = "scenario" => {r.image_url : r \in Rows} = ScenarioKept

\* the URLs other than u whose bytes are known to have the content of u:
\* served in this run, or recorded with that hash by an earlier run
SameContent(u) ==
    {v \in gots \cup {r.image_url : r \in Rows} :
        v # u /\ hash_image_bytes(v) = hash_image_bytes(u)}

\* C6: when two distinct URLs served bytes with the same content hash
\* (the other one possibly recorded by an earlier run), then once the
\* process has ended exactly one file with that content is in the output
\* directory and exactly one row carries the hash.
C6_ContentDedup ==
    ProcessOver =>
        \A u \in gots :
            (hash_image_bytes(u) # None /\ SameContent(u) # {}) =>
                /\ Cardinality({d \in disk :
                       hash_image_bytes(d.url) = hash_image_bytes(u)}) = 1
                /\ Cardinality({k \in DOMAIN metaFile :
                       metaFile[k].img_hash = hash_image_bytes(u)}) = 1

\* the step of task t in which download_image finds the hash already present
HashDuplicate(t) ==
    /\ At(t, "hash")
    /\ LET u == urljoin(Top(t).url, img_srcs(Top(t))[Top(t).i]) IN
       hash_image_bytes(u) # None /\ hash_image_bytes(u) \in hash_set
    /\ stack'[t] # stack[t]

\* C7: the step that finds a content duplicate increments neither the
\* task's downloaded counter nor its failed counter.
C7_DuplicateNotFailure ==
    [][\A t \in Tasks : HashDuplicate(t) =>
          /\ stack'[t][Len(stack'[t])].failed = Top(t).failed
          /\ stack'[t][Len(stack'[t])].downloaded = Top(t).downloaded]_vars

\* C8: in a run that follows a run completed without interrupt, nothing is
\* downloaded, no file is written and the number of rows does not change.
C8_Idempotent ==
    (run >= 2 /\ ~ended[run - 1].interrupted) =>
        /\ total_downloaded = 0
        /\ \A t \in Tasks : \A n \in DOMAIN stack[t] : stack[t][n].downloaded = 0
        /\ \A t \in Tasks : fut[t] = "done" => result[t].downloaded = 0
        /\ writes = {}
        /\ Len(metaFile) = ended[run - 1].rows

\* C9: two seed pages crawled concurrently, three images each, one URL
\* shared, all served and distinct: the fresh, uninterrupted run ends with
\* 5 rows and the summary found = 6, downloaded = 5, failed = 0.
C9_Scenario ==
    (world = "scenario" /\ run = 1 /\ ProcessOver /\ ~shutdown_flag) =>
        /\ Len(metaFile) = 5
        /\ Len(summary) = 1
        /\ summary[1].found = 6
        /\ summary[1].downloaded = 5
        /\ summary[1].failed = 0

\* the scenario's fresh run has ended, and both tasks were downloading at
\* the same time during it (the file with index 0 and the file with the
\* last index are of the same page)
C9_Witness ==
    /\ world = "scenario" /\ run = 1 /\ ProcessOver /\ ~shutdown_flag
    /\ \E k1, k2 \in DOMAIN metaFile :
          /\ metaFile[k1].filename.index = 0
          /\ metaFile[k2].filename.index = 4
          /\ metaFile[k1].page_url = metaFile[k2].page_url

\* the pages of web w within n same-origin hyperlink hops of a seed
RECURSIVE WithinOf(_, _)
WithinOf(w, n) ==
    IF n = 0 THEN {World(w).seeds[k] : k \in DOMAIN World(w).seeds}
    ELSE LET W == WithinOf(w, n - 1)
             linksOf(q) == IF q \in DOMAIN World(w).pages /\ World(w).pages[q].ok
                           THEN World(w).pages[q].links ELSE << >>
         IN W \cup {urljoin(e[1], linksOf(e[1])[e[2]]) : e \in
                      {x \in W \X (1 .. 3) :
                          /\ x[2] \in DOMAIN linksOf(x[1])
                          /\ netloc(urljoin(x[1], linksOf(x[1])[x[2]])) = netloc(x[1])}}

Within ==
    [w \in WorldNames |->
        [n \in {d \in World(w).depths : d >= 0} |-> WithinOf(w, n)]]

\* C10: with depth = 0 only seed pages are requested; with depth = N no
\* page more than N same-origin hops from a seed is requested; an
\* activation with negative remaining depth requests nothing.
C10_DepthBound ==
    /\ \A e \in fetches : e.depth >= 0
    /\ depth < 0 => fetches = {}
    /\ depth >= 0 => \A e \in fetches : e.url \in Within[world][depth]

\* with depth = 1 a run has ended in which a linked page was requested with
\* no depth left, and its own links were not followed
C10_Witness ==
    /\ depth = 1 /\ ProcessOver /\ ~shutdown_flag
    /\ \E e \in fetches : e.depth = 0 /\ e.url = <<"a", "r", "">>
    /\ ~ \E e \in fetches : e.url = <<"a", "q", "">>

\* the original statement of C11: once the shutdown flag is set, no crawl
\* task issues a page request or an image request
C11_NoNewWork == late = {}

\* the frame on top of the stack of task t after the step
TopAfter(t) == stack'[t][Len(stack'[t])]

\* C11: once the shutdown flag is set, each crawl task issues at most one
\* further request, the one whose test of the flag it had passed before;
\* every test of the flag made after that stops the work: an activation
\* entered then returns without a request, and the image loop is left
\* before the next image.
C11_CooperativeShutdown ==
    /\ [](\A t \in Tasks : Cardinality({e \in late : e.task = t}) <= 1)
    /\ [][\A t \in Tasks :
            (shutdown_flag /\ stack'[t] # stack[t]) =>
                /\ At(t, "entry") => TopAfter(t).pc = "ret"
                /\ At(t, "imgs") => TopAfter(t).pc = "links"]_vars

\* the run has ended after a SIGINT that reached both tasks between their
\* test of the flag and their request
C11_Witness ==
    /\ ProcessOver /\ shutdown_flag
    /\ \E e1, e2 \in late : e1.task # e2.task

\* the rows the metadata file held when this run started
StartRows == IF run = 1 THEN 0 ELSE ended[run - 1].rows

\* the original statement of C13: in every run, when the summary is
\* printed the metadata file has as many rows as the summary's downloaded
C13_StoreEqualsDownloaded ==
    Len(summary) = 1 => Len(metaFile) = summary[1].downloaded

\* C13: when the summary is printed, the number of rows appended to the
\* metadata file during the run equals the summary's downloaded counter; in
\* a run that started with an empty file that is the number of its rows.
C13_AppendedEqualsDownloaded ==
    Len(summary) = 1 =>
        /\ Len(metaFile) - StartRows = summary[1].downloaded
        /\ StartRows = 0 => Len(metaFile) = summary[1].downloaded

\* a resumed run that found rows and has downloaded more has printed its
\* summary
C13_Witness ==
    /\ run = 2 /\ Len(summary) = 1
    /\ StartRows > 0
    /\ summary[1].downloaded > 0

\* C14: at every moment of a run, downloaded_urls contains the image_url
\* of every row of the metadata file, of the rows loaded at the start as of
\* the rows appended since.
C14_SeenCoversStore ==
    {metaFile[k].image_url : k \in DOMAIN metaFile} \subseteq downloaded_urls

\* a resumed run holds rows it loaded and rows it appended, while a task is
\* still at work
C14_Witness ==
    /\ run = 2 /\ StartRows > 0
    /\ Len(metaFile) > StartRows
    /\ Running # {}

\* the step of task t in which its page request fails
FetchFails(t) ==
    /\ At(t, "fetch")
    /\ ~PageAt(Top(t).url).ok
    /\ stack'[t] # stack[t]

\* C15: a page whose request fails counts as one failure of its activation
\* and yields no row; the step leaves the task's other activations, the other
\* tasks and the files as they are, and the task goes on with the page's
\* siblings: in the graph site an uninterrupted run with depth >= 1 ends with
\* failed = 1, both seeds handled, page r requested and its image recorded.
C15_PageFailureIsolated ==
    /\ [][\A t \in Tasks : FetchFails(t) =>
            /\ TopAfter(t) = [Top(t) EXCEPT !.failed = 1, !.pc = "ret"]
            /\ Top(t).failed = 0 /\ Top(t).found = 0 /\ Top(t).downloaded = 0
            /\ Top(t).metadata = << >>
            /\ Len(stack'[t]) = Len(stack[t])
            /\ \A n \in 1 .. Len(stack[t]) - 1 : stack'[t][n] = stack[t][n]
            /\ \A o \in Tasks \ {t} : stack'[o] = stack[o]
            /\ UNCHANGED <<fut, result, files, shared, mainv>>]_vars
    /\ [](\A k \in DOMAIN metaFile : PageAt(metaFile[k].page_url).ok)
    /\ []((world = "graph" /\ depth >= 1 /\ ProcessOver /\ ~shutdown_flag) =>
            /\ summary[1].failed = 1
            /\ summary[1].sites_visited = 2
            /\ \E e \in fetches : e.url = <<"a", "r", "">>
            /\ \E k \in DOMAIN metaFile : metaFile[k].image_url = <<"a", "i1", ".jpg">>)

\* a run has ended in which task 2 requested the page that is not served
\* and then its sibling r, while task 1 crawled the other seed
C15_Witness ==
    /\ world = "graph" /\ depth >= 1 /\ ProcessOver /\ ~shutdown_flag
    /\ \E e \in fetches : e.url = <<"a", "f", "">> /\ e.task = 2
    /\ \E e \in fetches : e.url = <<"a", "r", "">> /\ e.task = 2
    /\ \E e \in fetches : e.url = <<"a", "m", "">> /\ e.task = 1

\* the step of task t in which the gate finds the URL in downloaded_urls
UrlDuplicate(t) ==
    /\ At(t, "admit")
    /\ urljoin(Top(t).url, img_srcs(Top(t))[Top(t).i]) \in downloaded_urls
    /\ stack'[t] # stack[t]

\* C16: the admission of a URL that is already in downloaded_urls takes no
\* index and attempts no download: the index counter, the set, the task's
\* counters, the files and the requests issued are unchanged, and the task is
\* at the next src.  Check, insert and index allocation are one critical
\* section: the gate runs with the lock held, and no URL is given two
\* indices in a run.
C16_DuplicateAdmission ==
    /\ [][\A t \in Tasks : UrlDuplicate(t) =>
            /\ TopAfter(t) = [Top(t) EXCEPT !.i = @ + 1, !.pc = "imgs"]
            /\ UNCHANGED <<index_counter, downloaded_urls, hash_set, files, allocs,
                           gots, writes, late>>]_vars
    /\ [](\A t \in Tasks : At(t, "admit") => lock = t)
    /\ [](\A a1, a2 \in allocs : a1.url = a2.url => a1 = a2)

\* a task has just passed over a URL that the other task had admitted
C16_Witness ==
    \E t \in Tasks :
        /\ At(t, "imgs")
        /\ Top(t).i > 1
        /\ \E a \in allocs :
              /\ a.url = urljoin(Top(t).url, img_srcs(Top(t))[Top(t).i - 1])
              /\ a.task # t

\* the pcs of an activation that is in its image loop
ImagePcs ==
    {"with_bar", "bar", "imgs", "with_admit", "admit", "get", "with_hash", "hash", "write",
     "with_tick", "tick"}

\* C17: within a task the order is depth-first: an activation that is in
\* its image loop has requested its page, and an activation that has called
\* another one (any frame below the top of the stack) has left its image loop
\* and is in its link loop, the child having one hop less.
C17_DepthFirst ==
    \A t \in Tasks : \A n \in DOMAIN stack[t] :
        LET f == stack[t][n] IN
        /\ f.pc \in ImagePcs \cup {"links"} =>
              /\ [url |-> f.url, task |-> t, depth |-> f.depth] \in fetches
              /\ PageAt(f.url).ok
        /\ n < Len(stack[t]) =>
              /\ f.pc = "links"
              /\ stack[t][n + 1].depth = f.depth - 1

\* a page with an image has written it and called a child, which is about
\* to request its page
C17_Witness ==
    \E t \in Tasks :
        /\ Len(stack[t]) >= 2
        /\ Top(t).pc = "fetch"
        /\ \E w \in writes : \E k \in DOMAIN stack[t][1].metadata :
              stack[t][1].metadata[k].image_url = w.url

\* the hashes put into hash_set during this run
InsertedHashes == hash_set \ LoadHashes(SubSeq(metaFile, 1, StartRows))

\* C19: every hash inserted into hash_set during the run is the hash of an
\* image whose file was written in the run, or of one whose download is
\* between the insert and the write.
C19_HashOnlyIfKept ==
    \A h \in InsertedHashes :
        \/ \E w \in writes : hash_image_bytes(w.url) = h
        \/ \E t \in Tasks :
              /\ At(t, "write")
              /\ hash_image_bytes(urljoin(Top(t).url, img_srcs(Top(t))[Top(t).i])) = h

\* C20: an uninterrupted run without failures and with depth = N requests
\* every page within N same-origin hops of a seed, whatever the order of the
\* links on the pages.
C20_AllWithinDepthFetched ==
    (depth >= 0 /\ ProcessOver /\ ~shutdown_flag /\ summary[1].failed = 0) =>
        Within[world][depth] \subseteq {e.url : e \in fetches}

\* C12: every run ends: main prints the summary, once, and returns, and
\* the pool's threads leave their tasks, whether the tasks finish by
\* themselves, pages or images fail, or a SIGINT arrives at any moment.
C12_Terminates ==
    /\ [](Len(summary) <= 1)
    /\ []((main_pc = "exit") <=> (Len(summary) = 1))
    /\ []<>(ProcessOver /\ Len(summary) = 1)

\* an interrupted run has ended with a failure counted, a task cancelled
\* before it started and the other one handled
C12_Witness ==
    /\ ProcessOver /\ shutdown_flag
    /\ Len(summary) = 1
    /\ summary[1].failed > 0
    /\ \E t \in Tasks : fut[t] = "cancelled"

\* task t stands at a `with lock:` and does not have the lock
Waiting(t) ==
    fut[t] = "running" /\ stack[t] # << >> /\ Top(t).pc \in DOMAIN WithLock

\* main has a finished future in hand and stands at line 281
MainWaiting == main_pc = "wait" /\ \E t \in Tasks : Yields(t)

\* the pcs of a task inside a `with lock:` block
Bodies == {WithLock[p] : p \in DOMAIN WithLock}

\* C18: the lock never causes a deadlock.  A thread holds the lock exactly
\* while it is inside a `with lock:` block, so never at a request for the
\* lock, never after `continue` or `return False`, and never during a page or
\* image request; and every thread that waits for the lock gets it: again
\* and again no thread is waiting.
C18_LockNeverDeadlocks ==
    /\ [](\A t \in Tasks :
            (lock = t) <=> (fut[t] = "running" /\ stack[t] # << >> /\ Top(t).pc \in Bodies))
    /\ []((lock = MainThread) <=> (main_pc = "locked"))
    /\ [](lock \in {Free, MainThread} \cup Tasks)
    /\ []<>((\A t \in Tasks : ~Waiting(t)) /\ ~MainWaiting)

\* main is inside its critical section while a task waits at the `with
\* lock:` of line 121, after download_image has returned False out of the
\* critical section of line 65-68 on a hash duplicate
C18_Witness ==
    /\ lock = MainThread
    /\ \E t \in Tasks :
          /\ Waiting(t)
          /\ Top(t).pc = "with_tick"
          /\ LET u == urljoin(Top(t).url, img_srcs(Top(t))[Top(t).i]) IN
                /\ u \in gots
                /\ hash_image_bytes(u) # None
                /\ ~ \E w \in writes : w.url = u
                /\ ImageAt(u).writable

====
